---- MODULE Spec2Model ----
(***************************************************************************)
(* gin-error-handler: the Options builder, NewErrorHandler and the         *)
(* middleware returned by ErrorHandler.GetMiddleware, as a state machine.  *)
(*                                                                         *)
(* An error value is a record [k, id, subs]: k is its dynamic type, id its *)
(* identity (the allocation of an errors.New value, the contents of a      *)
(* validator.ValidationErrors slice), subs what it unwraps to.             *)
(***************************************************************************)
EXTENDS Naturals, Sequences, FiniteSets

VARIABLES opts, eh, err, pc, ctxErrors, writes, lastErr, hit, calls

vars == <<opts, eh, err, pc, ctxErrors, writes, lastErr, hit, calls>>

\* ---------------------------------------------------------------- bounds
MaxConfig == 4      \* elements of Options.errMap plus the errors given to Map
MaxNodes == 2       \* error values the downstream step allocates (wrappers count)

\* ---------------------------------------------------------------- errors
NoErr == [k |-> "nil", id |-> 0, subs |-> <<>>]

New(i) == [k |-> "errorString", id |-> i, subs |-> <<>>]

ValidationErrors(c) == [k |-> "ValidationErrors", id |-> c, subs |-> <<>>]

Wrap(e) == [k |-> "wrapError", id |-> 0, subs |-> <<e>>]

Join(es) == [k |-> "joinError", id |-> 0, subs |-> es]

errA == New(1)

errB == New(2)

Leaves == {errA, errB, ValidationErrors(0), ValidationErrors(1)}

Markers == {errA, ValidationErrors(0)}

\* the errors made of n values, and the lists of errors made of n values in all
RECURSIVE ErrsOfSize(_)
RECURSIVE ErrLists(_)
ErrsOfSize(n) ==
    IF n = 1 THEN Leaves
    ELSE {Wrap(e) : e \in ErrsOfSize(n - 1)} \cup {Join(es) : es \in ErrLists(n - 1)}

ErrLists(n) ==
    IF n = 0 THEN {<<>>}
    ELSE UNION {{<<e>> \o rest : e \in ErrsOfSize(s), rest \in ErrLists(n - s)}
                : s \in 1..n}

Recorded == UNION {ErrLists(n) : n \in 0..MaxNodes}

TypeOf(e) == e.k

\* reflectlite.TypeOf(target).Comparable(): a slice type is not comparable
Comparable(target) == TypeOf(target) # "ValidationErrors"

\* none of these error types has an Is method: errors.Is compares and unwraps
RECURSIVE is(_, _, _)
is(e, target, targetComparable) ==
    \/ targetComparable /\ e = target
    \/ /\ TypeOf(e) = "wrapError"
       /\ is(e.subs[1], target, targetComparable)
    \/ /\ TypeOf(e) = "joinError"
       /\ \E i \in 1..Len(e.subs) : is(e.subs[i], target, targetComparable)

ErrorsIs(e, target) ==
    IF e = NoErr \/ target = NoErr THEN e = target
    ELSE is(e, target, Comparable(target))

\* the same-type fallback extended to every type
Matches_anyType(last, errToMap) ==
    \/ ErrorsIs(last, errToMap)
    \/ TypeOf(last) = TypeOf(errToMap)

Matches(last, errToMap) ==
    \/ ErrorsIs(last, errToMap)
    \/ /\ TypeOf(errToMap) = "ValidationErrors"
       /\ TypeOf(last) = TypeOf(errToMap)

\* ---------------------------------------------------------------- options
Funcs == {"nil", "fn"}

Map(errs) == [fromErrors |-> errs, toResponseFunc |-> "nil"]

ToResponse(r, response) == [r EXCEPT !.toResponseFunc = response]

\* the mapping lists of n elements in all, counting each mapping and each of
\* its errors
RECURSIVE MappingLists(_)
MappingLists(n) ==
    {<<>>} \cup
    UNION {{<<ToResponse(Map(errs), f)>> \o rest :
               errs \in [1..k -> Markers], f \in Funcs, rest \in MappingLists(n - 1 - k)}
           : k \in 0..(n - 1)}

NilHandler == [nil |-> TRUE, errMap |-> <<>>, defaultResponse |-> "nil"]

\* a validate that accepts every Options value
validate_noCheck(o) == "nil"

validate(o) == IF o.defaultResponse = "nil" THEN "defaultResponse is required" ELSE "nil"

Init ==
    /\ opts = [errMap |-> <<>>, defaultResponse |-> "nil"]
    /\ eh = NilHandler
    /\ err = "nil"
    /\ pc = "setup"
    /\ ctxErrors = <<>>
    /\ writes = 0
    /\ lastErr = NoErr
    /\ hit = 0
    /\ calls = <<>>

ctxVars == <<ctxErrors, writes, lastErr, hit, calls>>

ErrorMappings ==
    /\ pc = "setup"
    /\ \E m \in MappingLists(MaxConfig) : opts' = [opts EXCEPT !.errMap = m]
    /\ UNCHANGED <<eh, err, pc, ctxVars>>

DefaultResponse ==
    /\ pc = "setup"
    /\ \E f \in Funcs : opts' = [opts EXCEPT !.defaultResponse = f]
    /\ UNCHANGED <<eh, err, pc, ctxVars>>

NewErrorHandler ==
    /\ pc = "setup"
    /\ err' = validate(opts)
    /\ IF validate(opts) # "nil"
       THEN eh' = NilHandler /\ pc' = "failed"
       ELSE /\ eh' = [nil |-> FALSE, errMap |-> opts.errMap,
                      defaultResponse |-> opts.defaultResponse]
            /\ pc' = "idle"
    /\ UNCHANGED <<opts, ctxVars>>

\* ---------------------------------------------------------------- request
Last(errs) == IF Len(errs) = 0 THEN NoErr ELSE errs[Len(errs)]

\* a Written() that never reports a write
Written_never == FALSE

Written == writes > 0

\* the inner loop: some marker of fromErrors, taken in order, matches
RECURSIVE ScanMarkers(_, _, _)
ScanMarkers(fromErrors, last, j) ==
    IF j > Len(fromErrors) THEN FALSE
    ELSE IF Matches(last, fromErrors[j]) THEN TRUE
    ELSE ScanMarkers(fromErrors, last, j + 1)

\* an outer loop without the break: the last matching mapping wins
RECURSIVE ScanMappings_noBreak(_, _, _)
ScanMappings_noBreak(errMap, last, i) ==
    IF i > Len(errMap) THEN 0
    ELSE IF ScanMappings_noBreak(errMap, last, i + 1) > 0
         THEN ScanMappings_noBreak(errMap, last, i + 1)
    ELSE IF ScanMarkers(errMap[i].fromErrors, last, 1) THEN i
    ELSE 0

\* the outer loop: the index of the mapping whose response is called, 0 if the
\* loop runs to its end
RECURSIVE ScanMappings(_, _, _)
ScanMappings(errMap, last, i) ==
    IF i > Len(errMap) THEN 0
    ELSE IF ScanMarkers(errMap[i].fromErrors, last, 1) THEN i
    ELSE ScanMappings(errMap, last, i + 1)

Call(fn, idx, arg, wrote) == [fn |-> fn, idx |-> idx, arg |-> arg, wrote |-> wrote]

\* a fresh context for the next request
NewContext ==
    /\ pc = "done"
    /\ pc' = "idle"
    /\ ctxErrors' = <<>>
    /\ writes' = 0
    /\ lastErr' = NoErr
    /\ hit' = 0
    /\ calls' = <<>>
    /\ UNCHANGED <<opts, eh, err>>

\* context.Next(): the downstream step records errors and may write a response
ContextNext ==
    /\ pc = "idle"
    /\ \E errs \in Recorded, w \in 0..1 :
          /\ ctxErrors' = errs
          /\ writes' = w
    /\ pc' = "next"
    /\ UNCHANGED <<opts, eh, err, lastErr, hit, calls>>

\* a Dispatch without the early return on a nil last error
Dispatch_noReturn ==
    /\ pc = "next"
    /\ lastErr' = Last(ctxErrors)
    /\ hit' = ScanMappings(eh.errMap, Last(ctxErrors), 1)
    /\ pc' = IF ScanMappings(eh.errMap, Last(ctxErrors), 1) > 0 THEN "call" ELSE "fallback"
    /\ UNCHANGED <<opts, eh, err, ctxErrors, writes, calls>>

\* context.Errors.Last(), the early return and the two loops up to the call
Dispatch ==
    /\ pc = "next"
    /\ lastErr' = Last(ctxErrors)
    /\ IF Last(ctxErrors) = NoErr
       THEN hit' = 0 /\ pc' = "done"
       ELSE /\ hit' = ScanMappings(eh.errMap, Last(ctxErrors), 1)
            /\ pc' = IF ScanMappings(eh.errMap, Last(ctxErrors), 1) > 0
                     THEN "call" ELSE "fallback"
    /\ UNCHANGED <<opts, eh, err, ctxErrors, writes, calls>>

\* errorMapping.toResponseFunc(context, lastErr.Err); break extFor
\* calls lists the call expressions the middleware has executed; a call through
\* a nil func value is executed and panics
CallMapped ==
    /\ pc = "call"
    /\ IF eh.errMap[hit].toResponseFunc = "nil"
       THEN /\ calls' = Append(calls, Call("mapped", hit, lastErr, FALSE))
            /\ pc' = "panic"
            /\ UNCHANGED writes
       ELSE /\ \E w \in BOOLEAN :
                 /\ calls' = Append(calls, Call("mapped", hit, lastErr, w))
                 /\ writes' = IF w THEN writes + 1 ELSE writes
            /\ pc' = "fallback"
    /\ UNCHANGED <<opts, eh, err, ctxErrors, lastErr, hit>>

\* a Fallback that calls the default response only when a mapping was called
Fallback_afterMapped ==
    /\ pc = "fallback"
    /\ IF ~Written /\ hit > 0
       THEN \E w \in BOOLEAN :
                 /\ calls' = Append(calls, Call("default", 0, NoErr, w))
                 /\ writes' = IF w THEN writes + 1 ELSE writes
       ELSE UNCHANGED <<writes, calls>>
    /\ pc' = "done"
    /\ UNCHANGED <<opts, eh, err, ctxErrors, lastErr, hit>>

\* if !context.Writer.Written() { e.defaultResponse(context) }
Fallback ==
    /\ pc = "fallback"
    /\ IF ~Written
       THEN \E w \in BOOLEAN :
                 /\ calls' = Append(calls, Call("default", 0, NoErr, w))
                 /\ writes' = IF w THEN writes + 1 ELSE writes
       ELSE UNCHANGED <<writes, calls>>
    /\ pc' = "done"
    /\ UNCHANGED <<opts, eh, err, ctxErrors, lastErr, hit>>

Next ==
    \/ ErrorMappings
    \/ DefaultResponse
    \/ NewErrorHandler
    \/ NewContext
    \/ ContextNext
    \/ Dispatch
    \/ CallMapped
    \/ Fallback

Spec == Init /\ [][Next]_vars

\* ---------------------------------------------------------------- properties
Scanned == pc \in {"call", "fallback", "done", "panic"} /\ lastErr # NoErr

Called == pc \in {"fallback", "done", "panic"} /\ lastErr # NoErr

WroteCalls == {i \in 1..Len(calls) : calls[i].wrote}

\* what the downstream step wrote before the middleware went on
DownstreamWrites == writes - Cardinality(WroteCalls)

MappedCalls == SelectSeq(calls, LAMBDA c : c.fn = "mapped")

DefaultCalls == SelectSeq(calls, LAMBDA c : c.fn = "default")

\* the errors reachable from e by Unwrap, e included
RECURSIVE Chain(_)
Chain(e) == {e} \cup UNION {Chain(e.subs[i]) : i \in 1..Len(e.subs)}

MarkersOf(m) == {m.fromErrors[j] : j \in 1..Len(m.fromErrors)}

\* the mappings of the handler one of whose markers matches e
MatchingMappings(e) ==
    {i \in 1..Len(eh.errMap) : \E t \in MarkersOf(eh.errMap[i]) : Matches(e, t)}

\* C1: NewErrorHandler fails exactly when the options have no default response:
\* then it returns an error and a nil handler, whatever the mappings; otherwise
\* it returns no error and a handler holding the configured mappings in the
\* configured order and the configured default response.
C1_ConstructionFailsIffNoDefault ==
    IF pc = "setup" THEN eh = NilHandler /\ err = "nil"
    ELSE IF opts.defaultResponse = "nil"
         THEN eh = NilHandler /\ err # "nil" /\ pc = "failed"
         ELSE /\ ~eh.nil
              /\ err = "nil"
              /\ eh.errMap = opts.errMap
              /\ eh.defaultResponse = opts.defaultResponse
              /\ pc # "failed"

C1_Witness ==
    /\ pc = "failed"
    /\ Len(opts.errMap) = 2
    /\ opts.errMap[1] # opts.errMap[2]

\* C2: when the downstream step has recorded no error, the middleware returns
\* at once: it calls no response function, mapped or default, and leaves the
\* response as the downstream step left it, written or not.
C2_NoErrorNoProducer ==
    [][(pc = "next" /\ Len(ctxErrors) = 0)
         => (pc' = "done" /\ calls' = <<>> /\ writes' = writes)]_vars

C2_Witness ==
    /\ pc = "done"
    /\ Len(ctxErrors) = 0
    /\ writes = 0
    /\ calls = <<>>
    /\ Len(eh.errMap) > 0

\* C3: one run of the middleware makes at most one response-function call,
\* never a mapped one and then the default one.
C3_AtMostOneProducer == Len(calls) <= 1

\* C4: when the recorded error matches one or more mappings, the response
\* function of the first matching mapping in configured order is the only
\* mapped one called, and it is called once.
C4_FirstMatchOnly ==
    (Called /\ MatchingMappings(lastErr) # {}) =>
        /\ Len(MappedCalls) = 1
        /\ MappedCalls[1].idx \in MatchingMappings(lastErr)
        /\ \A i \in MatchingMappings(lastErr) : MappedCalls[1].idx <= i

C4_Witness ==
    /\ pc = "done"
    /\ Cardinality(MatchingMappings(lastErr)) >= 2
    /\ Len(MappedCalls) = 1
    /\ MappedCalls[1].idx = 1
    /\ MappedCalls[1].wrote
    /\ Len(ctxErrors) = 2

\* C5: a request with a recorded error ends with exactly one response written;
\* if the downstream step had written it, the middleware calls no response
\* function at all. (Response functions that write nothing are left aside.)
C5_ExactlyOneResponse ==
    (pc = "done" /\ lastErr # NoErr /\ WroteCalls = 1..Len(calls)) =>
        /\ writes = 1
        /\ DownstreamWrites > 0 => calls = <<>>

\* C6: the default response is called only if nothing was written when the
\* check before it ran: not after a downstream write, not after a mapped
\* response function that wrote.
C6_NoDefaultOnceWritten ==
    \A i \in 1..Len(calls) :
        calls[i].fn = "default" =>
            /\ DownstreamWrites = 0
            /\ \A j \in 1..Len(calls) : j # i => ~calls[j].wrote

C6_Witness ==
    /\ pc = "done"
    /\ lastErr # NoErr
    /\ MatchingMappings(lastErr) = {}
    /\ Len(eh.errMap) > 0
    /\ DownstreamWrites = 1
    /\ calls = <<>>

\* C7: when the recorded error matches no marker of any mapping and nothing
\* has been written, the default response is called exactly once and no mapped
\* response function is called.
C7_DefaultOnNoMatch ==
    (pc = "done" /\ lastErr # NoErr /\ MatchingMappings(lastErr) = {}
       /\ DownstreamWrites = 0) =>
        /\ Len(calls) = 1
        /\ calls[1].fn = "default"

C7_Witness ==
    /\ pc = "done"
    /\ lastErr = errB
    /\ Len(eh.errMap) = 2
    /\ \A i \in 1..Len(eh.errMap) : eh.errMap[i].fromErrors # <<>>
    /\ Len(DefaultCalls) = 1
    /\ MappedCalls = <<>>

\* C8: when the recorded error wraps or joins other errors and a marker of
\* mapping i is among the errors it unwraps to, the scan stops at mapping i or
\* before it, and the response function called gets the recorded error itself.
C8_WrappedChainMatches ==
    (Scanned /\ TypeOf(lastErr) \in {"wrapError", "joinError"}) =>
        \A i \in 1..Len(eh.errMap) :
            (MarkersOf(eh.errMap[i]) \cap Chain(lastErr) # {}) =>
                /\ hit >= 1
                /\ hit <= i
                /\ \A c \in 1..Len(MappedCalls) : MappedCalls[c].arg = lastErr

\* C9: the middleware never fails of its own: no run of it panics.
C9_NeverFails == pc # "panic"

\* what the match rule is to be for marker t and recorded error e
ShouldMatch(e, t) ==
    IF TypeOf(t) = "ValidationErrors" THEN TypeOf(e) = "ValidationErrors"
    ELSE t \in Chain(e)

\* C10: a marker of type validator.ValidationErrors matches exactly the
\* recorded errors that are themselves of that type, whatever they hold; a
\* marker of any other type matches exactly the recorded errors that unwrap to
\* it, never one that only has its type; a mapping without markers never
\* matches. The scan stops at the first mapping with such a marker.
C10_FallbackOnlyForValidationErrors ==
    Scanned =>
        \A i \in 1..Len(eh.errMap) :
            /\ hit = i => \E t \in MarkersOf(eh.errMap[i]) : ShouldMatch(lastErr, t)
            /\ (hit = 0 \/ i < hit) =>
                   \A t \in MarkersOf(eh.errMap[i]) : ~ShouldMatch(lastErr, t)

C10_Witness ==
    /\ pc = "done"
    /\ hit = 2
    /\ lastErr = ValidationErrors(1)
    /\ eh.errMap[1].fromErrors = <<errA>>
    /\ eh.errMap[2].fromErrors = <<ValidationErrors(0)>>
    /\ ctxErrors[1] = errA
====
